---- MODULE Spec2Model ----
(***************************************************************************)
(* plife: a particle-life simulator whose tick runs as a wgpu compute      *)
(* pass.  The host (main.rs, simulation.rs) builds the buffers, records    *)
(* one command buffer per tick (two copies and a dispatch) and submits it; *)
(* the device executes submitted commands in order, the invocations of a   *)
(* dispatch in any order.                                                  *)
(*                                                                         *)
(* f32 quantities are fixed-point integers: the f32 value x is the integer *)
(* x * FP, and every division rounds toward zero.                          *)
(***************************************************************************)
EXTENDS Integers, Sequences, FiniteSets, TLC

(***************************************************************************)
(* Bounds of the model.                                                    *)
(***************************************************************************)
\* fixed-point resolution: units per 1.0
FP == 16
\* largest population (--points) explored
MaxPoints == 2
\* largest ruleset.num_point_types explored
MaxTypes == 2
\* the host issues at most this many ticks
MaxSteps == 2
\* a draw of the thread-local generator is one of the fractions 0/Grain ..
\* Grain/Grain of its range
Grain == 2
\* the generator's stream of draws repeats after Period draws
Period == 5
\* RulesetTemplate::generate is called at most this many times in one thread
MaxRuns == 2
\* the populations sized lie within this distance of a power of two
Spread == 2
\* a frame starts only while fewer command buffers than this are pending
MaxQueue == 3
\* the ] key raises ticks_per_frame no further than this
MaxTicksPerFrame == 2

(***************************************************************************)
(* Arithmetic helpers.                                                     *)
(***************************************************************************)
Abs(x) == IF x < 0 THEN -x ELSE x

\* f32 division of fixed-point numbers: rounds toward zero, sign-symmetric
Div(a, b) ==
    IF (a >= 0) = (b > 0) THEN Abs(a) \div Abs(b) ELSE -(Abs(a) \div Abs(b))

RECURSIVE SqrtFrom(_, _)
SqrtFrom(x, r) ==
    LET s == (r + x \div r) \div 2
    IN  IF s >= r THEN r ELSE SqrtFrom(x, s)

\* sqrt(): the integer square root, by Newton's iteration from above
Sqrt(x) == IF x = 0 THEN 0 ELSE SqrtFrom(x, x)

\* Option<T>: None is <<>>, Some(x) is <<x>>
None == <<>>
Some(x) == <<x>>
IsSome(o) == Len(o) = 1
Unwrap(o) == o[1]

(***************************************************************************)
(* simulation.rs: WORKGROUP_SIZE, Ruleset, Walls.                          *)
(***************************************************************************)
WORKGROUP_SIZE == 256

\* Simulation::R_SMOOTH = 2.0
R_SMOOTH == 2 * FP

\* the argument of generate_point_uniform in Simulation::new
INIT_DIST == 500

WallsNone == <<"None">>
WallsSquare(f) == <<"Square", f>>
WallsWrapping(f) == <<"Wrapping", f>>

\* A Ruleset of n types whose matrices hold a distinct entry for every ordered
\* pair of types, with min_r < max_r everywhere; sign is the sign of the
\* attractions, friction the scalar friction.
RulesetOf(n, sign, friction) ==
    [num_point_types |-> n,
     min_r       |-> [a \in 0..(n - 1) |-> [b \in 0..(n - 1) |-> (1 + 2 * a + b) * FP]],
     max_r       |-> [a \in 0..(n - 1) |-> [b \in 0..(n - 1) |-> (6 + 2 * a + b) * FP]],
     attractions |-> [a \in 0..(n - 1) |-> [b \in 0..(n - 1) |-> sign * (1 + a + 2 * b) * FP]],
     friction    |-> friction]

\* A Ruleset of n types with the same entry for every pair of types
UniformRuleset(n, min_r, max_r, attraction, friction) ==
    [num_point_types |-> n,
     min_r       |-> [a \in 0..(n - 1) |-> [b \in 0..(n - 1) |-> min_r]],
     max_r       |-> [a \in 0..(n - 1) |-> [b \in 0..(n - 1) |-> max_r]],
     attractions |-> [a \in 0..(n - 1) |-> [b \in 0..(n - 1) |-> attraction]],
     friction    |-> friction]

\* the rulesets handed to Simulation::new
Rulesets ==
    {RulesetOf(n, IF n % 2 = 1 THEN 1 ELSE -1, IF n % 2 = 1 THEN 0 ELSE FP \div 2) :
        n \in 1..MaxTypes}

(***************************************************************************)
(* simulation.rs: RulesetTemplate, the presets, thread_rng().              *)
(***************************************************************************)
\* the f32 literal num/den
Fx(num, den) == Div(num * FP, den)

COOL_TEMPLATE ==
    [min_types |-> 12, max_types |-> 12,
     attractions_mean |-> Fx(-1, 100), attractions_std |-> Fx(4, 100),
     min_r_lower |-> Fx(0, 1), min_r_upper |-> Fx(20, 1),
     max_r_upper |-> Fx(500, 1), max_r_lower |-> Fx(10, 1),
     max_friction |-> Fx(5, 100), min_friction |-> Fx(5, 100)]

DIVERSITY_TEMPLATE ==
    [min_types |-> 12, max_types |-> 12,
     attractions_mean |-> Fx(-1, 100), attractions_std |-> Fx(4, 100),
     min_r_lower |-> Fx(0, 1), min_r_upper |-> Fx(20, 1),
     max_r_upper |-> Fx(60, 1), max_r_lower |-> Fx(10, 1),
     max_friction |-> Fx(5, 100), min_friction |-> Fx(5, 100)]

BALANCED_TEMPLATE ==
    [min_types |-> 9, max_types |-> 9,
     attractions_mean |-> Fx(-2, 100), attractions_std |-> Fx(6, 100),
     min_r_lower |-> Fx(0, 1), min_r_upper |-> Fx(20, 1),
     max_r_lower |-> Fx(20, 1), max_r_upper |-> Fx(70, 1),
     min_friction |-> Fx(5, 100), max_friction |-> Fx(5, 100)]

CHAOS_TEMPLATE ==
    [min_types |-> 6, max_types |-> 6,
     attractions_mean |-> Fx(2, 100), attractions_std |-> Fx(4, 100),
     min_r_lower |-> Fx(0, 1), min_r_upper |-> Fx(30, 1),
     max_r_lower |-> Fx(30, 1), max_r_upper |-> Fx(100, 1),
     min_friction |-> Fx(1, 100), max_friction |-> Fx(1, 100)]

HOMOGENEITY_TEMPLATE ==
    [min_types |-> 4, max_types |-> 4,
     attractions_mean |-> Fx(0, 1), attractions_std |-> Fx(4, 100),
     min_r_lower |-> Fx(10, 1), min_r_upper |-> Fx(10, 1),
     max_r_lower |-> Fx(10, 1), max_r_upper |-> Fx(80, 1),
     min_friction |-> Fx(5, 100), max_friction |-> Fx(5, 100)]

QUIESCENCE_TEMPLATE ==
    [min_types |-> 6, max_types |-> 6,
     attractions_mean |-> Fx(-2, 100), attractions_std |-> Fx(1, 10),
     min_r_lower |-> Fx(10, 1), min_r_upper |-> Fx(20, 1),
     max_r_lower |-> Fx(20, 1), max_r_upper |-> Fx(60, 1),
     min_friction |-> Fx(2, 10), max_friction |-> Fx(2, 10)]

\* the named presets (main.rs: RulesetTemplateCLI)
Presets ==
    {COOL_TEMPLATE, DIVERSITY_TEMPLATE, BALANCED_TEMPLATE, CHAOS_TEMPLATE,
     HOMOGENEITY_TEMPLATE, QUIESCENCE_TEMPLATE}

\* RulesetTemplate values a caller of the library builds itself: proper
\* ranges of types, radii and friction; then one range inverted each
CallerTemplates ==
    LET proper == [min_types |-> 0, max_types |-> 2,
                   attractions_mean |-> Fx(1, 2), attractions_std |-> Fx(1, 4),
                   min_r_lower |-> Fx(1, 1), min_r_upper |-> Fx(3, 1),
                   max_r_lower |-> Fx(2, 1), max_r_upper |-> Fx(9, 1),
                   min_friction |-> Fx(0, 1), max_friction |-> Fx(1, 1)]
    IN  {proper,
         [proper EXCEPT !.min_types = 2, !.max_types = 1],
         [proper EXCEPT !.min_types = 1, !.min_r_lower = Fx(4, 1)],
         [proper EXCEPT !.min_types = 1, !.max_r_lower = Fx(10, 1)],
         [proper EXCEPT !.min_friction = Fx(2, 1)]}

\* thread_rng(): a generator seeded by the operating system, its state the
\* stream seq of draws still to come and the position pos in it.  A draw is
\* a fraction u / Grain, u in 0..Grain.
RngStates == [seq : [0..(Period - 1) -> 0..Grain], pos : {0}]

\* the k-th draw from now, k = 0, 1, ...
Draw(r, k) == r.seq[(r.pos + k) % Period]

\* the generator after k draws
Advanced(r, k) == [r EXCEPT !.pos = (r.pos + k) % Period]

\* gen_range(lo..=hi) at the draw u, integers and f32 alike
GenRange(lo, hi, u) == lo + ((hi - lo) * u) \div Grain

\* Normal::new(mean, std_dev).unwrap().sample() at the draw u: the deviate
\* lies within Grain standard deviations
NormalSample(mean, std_dev, u) == mean + std_dev * (2 * u - Grain)

\* gen_range panics on an empty range
RangeEmpty(lo, hi) == lo > hi

\* the draws generate makes panic: the types, then (only when there is a
\* type) the radii, then the friction
GeneratePanics(t, r) ==
    \/ RangeEmpty(t.min_types, t.max_types)
    \/ /\ GenRange(t.min_types, t.max_types, Draw(r, 0)) > 0
       /\ \/ RangeEmpty(t.min_r_lower, t.min_r_upper)
          \/ RangeEmpty(t.max_r_lower, t.max_r_upper)
    \/ RangeEmpty(t.min_friction, t.max_friction)

\* the number of draws of one call of generate that returns n types
DrawsOf(n) == 2 + 3 * n * n

\* mutant of Generate: max_r is drawn from the range of min_r
GenerateMaxFromMinRange(t, r) ==
    LET n == GenRange(t.min_types, t.max_types, Draw(r, 0))
    IN  [num_point_types |-> n,
         min_r |-> [a \in 0..(n - 1) |-> [b \in 0..(n - 1) |->
                      GenRange(t.min_r_lower, t.min_r_upper, Draw(r, 1 + a * n + b))]],
         max_r |-> [a \in 0..(n - 1) |-> [b \in 0..(n - 1) |->
                      GenRange(t.min_r_lower, t.min_r_upper,
                               Draw(r, 1 + n * n + a * n + b))]],
         attractions |-> [a \in 0..(n - 1) |-> [b \in 0..(n - 1) |->
                      NormalSample(t.attractions_mean, t.attractions_std,
                                   Draw(r, 1 + 2 * n * n + a * n + b))]],
         friction |-> GenRange(t.min_friction, t.max_friction, Draw(r, 1 + 3 * n * n))]

\* RulesetTemplate::generate: the Ruleset returned, the fields drawn in the
\* order written: num_point_types, min_r, max_r, attractions, friction
Generate(t, r) ==
    LET n == GenRange(t.min_types, t.max_types, Draw(r, 0))
    IN  [num_point_types |-> n,
         min_r |-> [a \in 0..(n - 1) |-> [b \in 0..(n - 1) |->
                      GenRange(t.min_r_lower, t.min_r_upper, Draw(r, 1 + a * n + b))]],
         max_r |-> [a \in 0..(n - 1) |-> [b \in 0..(n - 1) |->
                      GenRange(t.max_r_lower, t.max_r_upper,
                               Draw(r, 1 + n * n + a * n + b))]],
         attractions |-> [a \in 0..(n - 1) |-> [b \in 0..(n - 1) |->
                      NormalSample(t.attractions_mean, t.attractions_std,
                                   Draw(r, 1 + 2 * n * n + a * n + b))]],
         friction |-> GenRange(t.min_friction, t.max_friction, Draw(r, 1 + 3 * n * n))]

(***************************************************************************)
(* main.rs: the command line.                                              *)
(***************************************************************************)
WallsCLI == {"None", "Square", "Wrapping"}

\* --wall-dist values given on the command line (any f32 parses)
WallDists == {-1 * FP, FP \div 4}

\* mutant of TryIntoWalls: a missing distance falls back to Walls::None
TryIntoWallsLenient(wt, wd) ==
    IF wt = "Square" /\ IsSome(wd) THEN <<"Ok", WallsSquare(Unwrap(wd))>>
    ELSE IF wt = "Wrapping" /\ IsSome(wd) THEN <<"Ok", WallsWrapping(Unwrap(wd))>>
    ELSE <<"Ok", WallsNone>>

\* impl TryInto<Walls> for (WallsCLI, Option<f32>): Ok(w) is <<"Ok", w>>
TryIntoWalls(wt, wd) ==
    IF wt = "None" THEN <<"Ok", WallsNone>>
    ELSE IF wt = "Square" /\ IsSome(wd) THEN <<"Ok", WallsSquare(Unwrap(wd))>>
    ELSE IF wt = "Wrapping" /\ IsSome(wd) THEN <<"Ok", WallsWrapping(Unwrap(wd))>>
    ELSE <<"Err", "Square and Wrapping walls require wall distance parameter.">>

(***************************************************************************)
(* The compute kernel (compute.wgsl): the pairwise force law and one       *)
(* particle's tick, Evaluate, Integrate, Boundary enforcement.             *)
(***************************************************************************)
VAdd(u, v) == <<u[1] + v[1], u[2] + v[2]>>
VSub(u, v) == <<u[1] - v[1], u[2] - v[2]>>
Zero2 == <<0, 0>>

\* robust buffer access: a read outside the buffer yields 0
ReadAt(buf, k) == IF k \in DOMAIN buf THEN buf[k] ELSE 0

\* the displacement correction of the boundary policy, one axis
WrapCoord(d, w) ==
    IF w[1] = "Wrapping"
    THEN (IF d > w[2] THEN d - 2 * w[2]
          ELSE IF d < -w[2] THEN d + 2 * w[2] ELSE d)
    ELSE d

wrap(delta, w) == <<WrapCoord(delta[1], w), WrapCoord(delta[2], w)>>

\* the tent profile of the band min_r < r <= max_r
TentMagnitude(r, min_r, max_r, attraction) ==
    Div(attraction * ((max_r - min_r) - Abs(2 * r - (max_r + min_r))), max_r - min_r)

\* mutant of ShortMagnitude: the term 1 / (min_r + R_SMOOTH) is left out
ShortMagnitudeNoOffset(r, min_r) ==
    Div(-(R_SMOOTH * min_r), r + R_SMOOTH)

\* the smoothed short-range branch, r <= min_r
ShortMagnitude(r, min_r) ==
    Div(R_SMOOTH * min_r * (r - min_r), (min_r + R_SMOOTH) * (r + R_SMOOTH))

\* mutant of force: the floor guards only coincident particles
forceFloorAtZero(delta, min_r, max_r, attraction) ==
    LET r2 == delta[1] * delta[1] + delta[2] * delta[2]
    IN  IF r2 > max_r * max_r \/ r2 = 0 THEN Zero2
        ELSE LET r == Sqrt(r2)
                 f == IF r > min_r THEN TentMagnitude(r, min_r, max_r, attraction)
                      ELSE ShortMagnitude(r, min_r)
             IN  <<Div(delta[1] * f, r), Div(delta[2] * f, r)>>

\* force(delta, min_r, max_r, attraction) -> Vec2
force(delta, min_r, max_r, attraction) ==
    LET r2 == delta[1] * delta[1] + delta[2] * delta[2]
    IN  IF r2 > max_r * max_r \/ 100 * r2 < FP * FP THEN Zero2
        ELSE LET r == Sqrt(r2)
                 f == IF r > min_r THEN TentMagnitude(r, min_r, max_r, attraction)
                      ELSE ShortMagnitude(r, min_r)
             IN  <<Div(delta[1] * f, r), Div(delta[2] * f, r)>>

\* Boundary enforcement of one axis: <<coordinate, velocity component>>
BoundaryCoord(c, v, w) ==
    IF w[1] = "Wrapping"
    THEN (IF c >= w[2] THEN <<c - 2 * w[2], v>>
          ELSE IF c < -w[2] THEN <<c + 2 * w[2], v>> ELSE <<c, v>>)
    ELSE IF w[1] = "Square"
    THEN (IF c >= w[2] THEN <<w[2], -v>>
          ELSE IF c < -w[2] THEN <<-w[2], -v>> ELSE <<c, v>>)
    ELSE <<c, v>>

\* the boundary policy the kernel is given: it sees the nine bound buffers,
\* and takes the policy from the globals when they carry one
KernelWalls(g) == IF "walls" \in DOMAIN g THEN g.walls ELSE WallsNone

\* Evaluate: the force on particle p from the particles q..n of the snapshot
RECURSIVE ForceSum(_, _, _, _, _, _, _, _)
ForceSum(p, q, pos, types, cmin, cmax, catt, g) ==
    IF q > g.num_points THEN Zero2
    ELSE LET rest == ForceSum(p, q + 1, pos, types, cmin, cmax, catt, g)
             k == ReadAt(types, p) * g.num_point_types + ReadAt(types, q) + 1
         IN  IF q = p THEN rest
             ELSE VAdd(force(wrap(VSub(pos[q], pos[p]), KernelWalls(g)),
                             ReadAt(cmin, k), ReadAt(cmax, k), ReadAt(catt, k)),
                       rest)

\* Integrate, before the boundary: <<position, velocity>> of particle p
Integrated(p, pos, vel, types, cmin, cmax, catt, g) ==
    LET v1 == VAdd(vel[p], ForceSum(p, 1, pos, types, cmin, cmax, catt, g))
        p1 == VAdd(pos[p], v1)
        v2 == <<Div(v1[1] * (FP - g.friction), FP), Div(v1[2] * (FP - g.friction), FP)>>
    IN  <<p1, v2>>

\* one invocation: the <<position, velocity>> it stores for particle p
Kernel(p, pos, vel, types, cmin, cmax, catt, g) ==
    LET s == Integrated(p, pos, vel, types, cmin, cmax, catt, g)
        x == BoundaryCoord(s[1][1], s[2][1], KernelWalls(g))
        y == BoundaryCoord(s[1][2], s[2][2], KernelWalls(g))
    IN  << <<x[1], y[1]>>, <<x[2], y[2]>> >>

(***************************************************************************)
(* State.                                                                  *)
(***************************************************************************)
VARIABLES
    pc,            \* where the host is: "main", "new", "run", "loop", "done", "panicked"
    panic,         \* the call that panicked, "" while none has
    points,        \* --points
    wall_type,     \* --wall-type
    wall_dist,     \* --wall-dist, an Option
    headless,      \* --headless
    checkpoint,    \* --checkpoint, an Option
    max_steps,     \* --steps, an Option
    num_points,    \* Simulation.num_points
    ruleset,       \* Simulation.ruleset
    walls,         \* Simulation.walls
    buffers,       \* the contents of the Simulation's device buffers, by name
    queue,         \* the command buffers submitted and not yet completed
    gpu_pc,        \* the command of Head(queue) the device executes next
    invoked,       \* the invocations of the running dispatch that have run
    steps,         \* run_headless: steps
    steps_since_checkpoint,
    reports,       \* run_headless: checkpoint reports printed
    broken,        \* run_headless: the Ctrl-C flag
    template,      \* the RulesetTemplate generate is called on
    rng,           \* thread_rng(): the thread-local generator
    generated,     \* the Rulesets generate has returned, in order
    force_args,    \* a call of the kernel's force: its arguments
    force_out,     \* that call's return value, an Option
    ticks,         \* Visualization.ticks
    ticks_per_frame,   \* Visualization.ticks_per_frame
    ticks_just_now,    \* Visualization.ticks_just_now
    saved,         \* the SimulationSerialized written, an Option
    loaded,        \* the process that resumes from it: its Simulation and steps
    population,    \* a population whose buffers and dispatch are sized
    sized          \* the sizes computed for it, an Option

args == <<points, wall_type, wall_dist, headless, checkpoint, max_steps>>
sim == <<num_points, ruleset, walls, buffers>>
gpu == <<queue, gpu_pc, invoked>>
loop == <<steps, steps_since_checkpoint, reports, broken>>
sampler == <<template, rng, generated>>
kernel_call == <<force_args, force_out>>
vis == <<ticks, ticks_per_frame, ticks_just_now>>
persist == <<saved, loaded>>
sizing == <<population, sized>>
\* the state that main, Simulation::new, run_headless and the device leave alone
outside == <<sampler, kernel_call, vis, persist, sizing>>
vars == <<pc, panic, args, sim, gpu, loop, outside>>

BufferNames ==
    {"positions", "positions_old", "velocities", "velocities_old", "types",
     "cache_max_r", "cache_min_r", "cache_attraction", "globals"}

positions == buffers["positions"]
positions_old == buffers["positions_old"]
velocities == buffers["velocities"]
velocities_old == buffers["velocities_old"]
types == buffers["types"]
cache_max_r == buffers["cache_max_r"]
cache_min_r == buffers["cache_min_r"]
cache_attraction == buffers["cache_attraction"]
globals == buffers["globals"]

\* a Simulation exists
Constructed == pc \in {"run", "loop", "done"} \/ (pc = "panicked" /\ panic = "run_headed")

(***************************************************************************)
(* Simulation::new.                                                        *)
(***************************************************************************)
\* generate_point_uniform(dist): both coordinates lie in [-dist, dist)
PointSamples(dist) ==
    {<<0, 0>>, <<3 * FP, 4 * FP>>, <<(dist - 1) * FP, -dist * FP>>}

\* mutant of TypeRange: the inclusive range 0..=num_point_types
TypeRangeInclusive(n) == 0..n

\* thread_rng().gen_range(0..num_point_types)
TypeRange(n) == 0..(n - 1)

\* what a buffer mapped at creation and never written may hold
UninitFills == {Zero2, <<7 * FP, -7 * FP>>}

\* the three cache buffers are filled alike: entry y * n + x is the matrix
\* entry at [types_vec[y]][types_vec[x]]
CacheOf(m, n, types_vec) ==
    [k \in 1..(n * n) |->
        m[types_vec[((k - 1) \div n) + 1]][types_vec[((k - 1) % n) + 1]]]

\* the index of types_vec or of a matrix row that is out of bounds
NewPanics(n, rs, types_vec) ==
    \/ n > 0 /\ rs.num_point_types = 0
    \/ \E y \in 0..(rs.num_point_types - 1) :
          \/ y + 1 > n
          \/ types_vec[y + 1] \notin DOMAIN rs.max_r

\* the globals buffer: num_points, num_point_types, friction
GlobalsOf(n, rs, w) ==
    [num_points |-> n, num_point_types |-> rs.num_point_types, friction |-> rs.friction]

\* the buffers as Simulation::new fills them: pts the positions drawn,
\* types_vec the types drawn, junk what the unwritten buffers hold
BuffersOf(n, rs, w, pts, types_vec, junk) ==
    [b \in BufferNames |->
       CASE b = "positions" -> pts
         [] b = "positions_old" -> [i \in 1..n |-> junk]
         [] b = "velocities" -> [i \in 1..n |-> Zero2]
         [] b = "velocities_old" -> [i \in 1..n |-> junk]
         [] b = "types" -> types_vec
         [] b = "cache_max_r" -> CacheOf(rs.max_r, rs.num_point_types, types_vec)
         [] b = "cache_min_r" -> CacheOf(rs.min_r, rs.num_point_types, types_vec)
         [] b = "cache_attraction" -> CacheOf(rs.attractions, rs.num_point_types, types_vec)
         [] b = "globals" -> GlobalsOf(n, rs, w)]

SimulationNew ==
    /\ pc = "new"
    /\ \E pts \in [1..points -> PointSamples(INIT_DIST)],
          types_vec \in [1..points -> TypeRange(ruleset.num_point_types)],
          junk \in UninitFills :
          IF NewPanics(points, ruleset, types_vec)
          THEN /\ pc' = "panicked"
               /\ panic' = "new"
               /\ UNCHANGED <<num_points, buffers>>
          ELSE /\ pc' = "run"
               /\ num_points' = points
               /\ buffers' = BuffersOf(points, ruleset, walls, pts, types_vec, junk)
               /\ UNCHANGED panic
    /\ UNCHANGED <<args, ruleset, walls, gpu, loop>>
    /\ UNCHANGED outside

(***************************************************************************)
(* Simulation::new: the bind group.  Simulation::step: the command buffer. *)
(***************************************************************************)
\* mutant of BindGroupBuffer: binding 1 holds positions, not positions_old
BindGroupBufferCurrentAtOne(b) ==
    CASE b = 0 -> "positions"
      [] b = 1 -> "positions"
      [] b = 2 -> "velocities"
      [] b = 3 -> "velocities_old"
      [] b = 4 -> "types"
      [] b = 5 -> "cache_max_r"
      [] b = 6 -> "cache_min_r"
      [] b = 7 -> "cache_attraction"
      [] b = 8 -> "globals"

\* mutant of BindGroupBuffer: binding 7 holds cache_max_r, not cache_attraction
BindGroupBufferMaxRAtSeven(b) ==
    CASE b = 0 -> "positions"
      [] b = 1 -> "positions_old"
      [] b = 2 -> "velocities"
      [] b = 3 -> "velocities_old"
      [] b = 4 -> "types"
      [] b = 5 -> "cache_max_r"
      [] b = 6 -> "cache_min_r"
      [] b = 7 -> "cache_max_r"
      [] b = 8 -> "globals"

\* mutant of BindGroupBuffer: bindings 5 and 6 hold cache_min_r and
\* cache_max_r, in the order of the other declarations
BindGroupBufferRadiiSwapped(b) ==
    CASE b = 0 -> "positions"
      [] b = 1 -> "positions_old"
      [] b = 2 -> "velocities"
      [] b = 3 -> "velocities_old"
      [] b = 4 -> "types"
      [] b = 5 -> "cache_min_r"
      [] b = 6 -> "cache_max_r"
      [] b = 7 -> "cache_attraction"
      [] b = 8 -> "globals"

\* bind_group: the buffer bound at each binding
BindGroupBuffer(b) ==
    CASE b = 0 -> "positions"
      [] b = 1 -> "positions_old"
      [] b = 2 -> "velocities"
      [] b = 3 -> "velocities_old"
      [] b = 4 -> "types"
      [] b = 5 -> "cache_max_r"
      [] b = 6 -> "cache_min_r"
      [] b = 7 -> "cache_attraction"
      [] b = 8 -> "globals"

\* bind_group_layout: the bindings a shader cannot store to (read-only
\* storage, uniform)
BindingReadOnly(b) == b \notin {0, 2}

SIZE_OF_F32 == 4

\* `n as f32`: round to nearest, ties to even, 24 bits of mantissa
RECURSIVE UlpOf(_, _)
UlpOf(n, u) == IF n < 16777216 * u THEN u ELSE UlpOf(n, 2 * u)

AsF32(n) ==
    LET u == UlpOf(n, 1)
        q == n \div u
        r == n % u
    IN  IF 2 * r > u \/ (2 * r = u /\ q % 2 = 1) THEN (q + 1) * u ELSE q * u

\* (self.num_points as f32 / WORKGROUP_SIZE as f32).ceil() as u32
Workgroups(n) == (AsF32(n) + WORKGROUP_SIZE - 1) \div WORKGROUP_SIZE

\* mutant of StepCommands: the dispatch is recorded before the copies
StepCommandsDispatchFirst(n) ==
    << <<"dispatch", Workgroups(n)>>,
       <<"copy", "positions", "positions_old", n * SIZE_OF_F32 * 2>>,
       <<"copy", "velocities", "velocities_old", n * SIZE_OF_F32 * 2>> >>

\* mutant of StepCommands: the second copy names the cache buffers
StepCommandsCopyCache(n) ==
    << <<"copy", "positions", "positions_old", n * SIZE_OF_F32 * 2>>,
       <<"copy", "cache_min_r", "cache_max_r", n * SIZE_OF_F32 * 2>>,
       <<"dispatch", Workgroups(n)>> >>

\* the commands step records, in order: a copy is <<"copy", source,
\* destination, bytes>>, a dispatch <<"dispatch", workgroups>>
StepCommands(n) ==
    << <<"copy", "positions", "positions_old", n * SIZE_OF_F32 * 2>>,
       <<"copy", "velocities", "velocities_old", n * SIZE_OF_F32 * 2>>,
       <<"dispatch", Workgroups(n)>> >>

\* mutant of step: the commands are submitted twice
stepTwice ==
    queue' = Append(Append(queue, StepCommands(num_points)), StepCommands(num_points))

\* Simulation::step: record the commands and submit them; it does not wait
step == queue' = Append(queue, StepCommands(num_points))

(***************************************************************************)
(* The device: it executes the submitted command buffers in order, the     *)
(* commands of one in order, the invocations of a dispatch in any order.   *)
(***************************************************************************)
Command == Head(queue)[gpu_pc]

NextCommand ==
    IF gpu_pc = Len(Head(queue))
    THEN queue' = Tail(queue) /\ gpu_pc' = 1
    ELSE queue' = queue /\ gpu_pc' = gpu_pc + 1

\* copy_buffer_to_buffer of the first bytes of src to dst
Copied(src, dst, bytes) ==
    [k \in DOMAIN dst |-> IF k * SIZE_OF_F32 * 2 <= bytes THEN src[k] ELSE dst[k]]

GpuCopy ==
    /\ queue # <<>>
    /\ Command[1] = "copy"
    /\ buffers' = [buffers EXCEPT
                     ![Command[3]] = Copied(buffers[Command[2]], buffers[Command[3]], Command[4])]
    /\ NextCommand
    /\ UNCHANGED <<pc, panic, args, num_points, ruleset, walls, invoked, loop>>
    /\ UNCHANGED outside

\* the particles that get an invocation that passes the kernel's bounds test
Invocations(workgroups) ==
    {i \in 1..globals.num_points : i <= workgroups * WORKGROUP_SIZE}

Bound(b) == buffers[BindGroupBuffer(b)]

\* a store of the kernel through binding b, at slot i
Stored(bufs, b, i, val) ==
    IF BindingReadOnly(b) \/ i \notin DOMAIN bufs[BindGroupBuffer(b)] THEN bufs
    ELSE [bufs EXCEPT ![BindGroupBuffer(b)][i] = val]

GpuInvoke(i) ==
    /\ queue # <<>>
    /\ Command[1] = "dispatch"
    /\ i \in Invocations(Command[2]) \ invoked
    /\ LET out == Kernel(i, Bound(1), Bound(3), Bound(4), Bound(6), Bound(5), Bound(7), Bound(8))
       IN  buffers' = Stored(Stored(buffers, 0, i, out[1]), 2, i, out[2])
    /\ invoked' = invoked \cup {i}
    /\ UNCHANGED <<pc, panic, args, num_points, ruleset, walls, queue, gpu_pc, loop>>
    /\ UNCHANGED outside

GpuDispatchEnd ==
    /\ queue # <<>>
    /\ Command[1] = "dispatch"
    /\ invoked = Invocations(Command[2])
    /\ invoked' = {}
    /\ NextCommand
    /\ UNCHANGED <<pc, panic, args, sim, loop>>
    /\ UNCHANGED outside

(***************************************************************************)
(* main.rs: main and run_headless.                                         *)
(***************************************************************************)
\* main, up to the arguments of Simulation::new: the ruleset, then
\* (wall_type, wall_dist).try_into().unwrap()
MainArgs ==
    /\ pc = "main"
    /\ \E rs \in Rulesets :
          LET r == TryIntoWalls(wall_type, wall_dist)
          IN  IF r[1] = "Ok"
              THEN pc' = "new" /\ ruleset' = rs /\ walls' = r[2] /\ UNCHANGED panic
              ELSE pc' = "panicked" /\ panic' = "unwrap" /\ UNCHANGED <<ruleset, walls>>
    /\ UNCHANGED <<args, num_points, buffers, gpu, loop>>
    /\ UNCHANGED outside

\* run_headed: unimplemented!()
RunHeaded ==
    /\ pc = "run"
    /\ ~headless
    /\ pc' = "panicked"
    /\ panic' = "run_headed"
    /\ UNCHANGED <<args, sim, gpu, loop>>
    /\ UNCHANGED outside

\* run_headless, up to the loop: the Ctrl-C handler is installed
RunHeadlessStart ==
    /\ pc = "run"
    /\ headless
    /\ pc' = "loop"
    /\ steps' = 0
    /\ steps_since_checkpoint' = 0
    /\ broken' = FALSE
    /\ UNCHANGED <<panic, args, sim, gpu, reports>>
    /\ UNCHANGED outside

\* the handler given to ctrlc::set_handler
CtrlC ==
    /\ pc = "loop"
    /\ ~broken
    /\ broken' = TRUE
    /\ UNCHANGED <<pc, panic, args, sim, gpu, steps, steps_since_checkpoint, reports>>
    /\ UNCHANGED outside

\* mutant of CheckpointDue: the report comes one step early
CheckpointDueBefore(c, n) == (n + 1) % c = 0

\* if steps % checkpoint == 0
CheckpointDue(c, n) == n % c = 0

\* mutant of LoopBreaks: the flag of the Ctrl-C handler is not examined
LoopBreaksOnLimitOnly(b, limit, n) == IsSome(limit) /\ n >= Unwrap(limit)

\* mutant of LoopBreaks: the loop goes on until the limit is exceeded
LoopBreaksPastLimit(b, limit, n) == b \/ (IsSome(limit) /\ n > Unwrap(limit))

\* the condition of the break: broken.load(..) || max_steps.map(|max_steps|
\* steps >= max_steps).unwrap_or(false)
LoopBreaks(b, limit, n) == b \/ (IsSome(limit) /\ n >= Unwrap(limit))

\* one iteration of the loop of run_headless
LoopIteration ==
    /\ pc = "loop"
    /\ steps < MaxSteps
    /\ step
    /\ steps' = steps + 1
    /\ IF IsSome(checkpoint) /\ Unwrap(checkpoint) = 0
       THEN \* steps % checkpoint: the remainder with a divisor of zero panics
            /\ pc' = "panicked"
            /\ panic' = "checkpoint"
            /\ steps_since_checkpoint' = steps_since_checkpoint + 1
            /\ UNCHANGED reports
       ELSE /\ IF IsSome(checkpoint) /\ CheckpointDue(Unwrap(checkpoint), steps')
               THEN reports' = reports + 1 /\ steps_since_checkpoint' = 0
               ELSE reports' = reports
                    /\ steps_since_checkpoint' = steps_since_checkpoint + 1
            /\ pc' = IF LoopBreaks(broken, max_steps, steps') THEN "done" ELSE "loop"
            /\ UNCHANGED panic
    /\ UNCHANGED <<args, sim, gpu_pc, invoked, broken>>
    /\ UNCHANGED outside

(***************************************************************************)
(* A thread that calls RulesetTemplate::generate.                          *)
(***************************************************************************)
\* one call of template.generate()
GenerateCall ==
    /\ pc = "generate"
    /\ Len(generated) < MaxRuns
    /\ IF GeneratePanics(template, rng)
       THEN /\ pc' = "panicked"
            /\ panic' = "generate"
            /\ UNCHANGED <<rng, generated>>
       ELSE /\ generated' = Append(generated, Generate(template, rng))
            /\ rng' = Advanced(rng, DrawsOf(Generate(template, rng).num_point_types))
            /\ UNCHANGED <<pc, panic>>
    /\ UNCHANGED <<args, sim, gpu, loop, template, kernel_call, vis, persist, sizing>>

(***************************************************************************)
(* visualization.rs: the frame of Visualization::run, update and render,   *)
(* and the keys that change ticks_per_frame.                               *)
(***************************************************************************)
U16_MAX == 65535

\* the values of ticks_per_frame explored: those next to either end of u16
TicksPerFrameWindow ==
    (0..MaxTicksPerFrame) \cup ((U16_MAX - MaxTicksPerFrame)..U16_MAX)

\* mutant of CheckedSub1: wrapping_sub(1)
WrappingSub1(n) == Some((n - 1) % (U16_MAX + 1))

\* ticks_per_frame.checked_sub(1), checked_add(1): None leaves it alone
CheckedSub1(n) == IF n = 0 THEN None ELSE Some(n - 1)
CheckedAdd1(n) == IF n = U16_MAX THEN None ELSE Some(n + 1)

\* mutant of FramePhases: the frame is rendered before it is updated
FramePhasesRenderFirst == <<"render", "update">>

\* Event::MainEventsCleared: self.update(..); self.render(..)
FramePhases == <<"update", "render">>

\* what follows a phase of the frame: the next phase, then the event loop
AfterPhase(ph) == IF ph = FramePhases[1] THEN FramePhases[2] ELSE "events"

\* the host moves to ph; update starts with ticks_just_now = 0
EnterPhase(ph) ==
    /\ pc' = ph
    /\ ticks_just_now' = IF ph = "update" THEN 0 ELSE ticks_just_now

\* the commands render records, in order: the staging belt's write of the
\* render globals, <<"write", destination>>, and the render pass,
\* <<"draw", vertex buffers, uniforms of the bind group, instances>>
RenderCommands(n) ==
    << <<"write", "render_globals">>,
       <<"draw", {"vertex_buffer", "positions"},
                 {"globals", "render_globals", "types", "colors"}, n>> >>

\* Event::MainEventsCleared
MainEventsCleared ==
    /\ pc = "events"
    /\ ticks + ticks_per_frame <= MaxSteps
    /\ Len(queue) < MaxQueue
    /\ EnterPhase(FramePhases[1])
    /\ UNCHANGED <<panic, args, sim, gpu, loop, sampler, kernel_call,
                   ticks, ticks_per_frame, persist, sizing>>

\* update: one iteration of for _ in 0..self.ticks_per_frame
UpdateIteration ==
    /\ pc = "update"
    /\ ticks_just_now < ticks_per_frame
    /\ step
    /\ ticks' = ticks + 1
    /\ ticks_just_now' = ticks_just_now + 1
    /\ UNCHANGED <<pc, panic, args, sim, gpu_pc, invoked, loop, sampler, kernel_call,
                   ticks_per_frame, persist, sizing>>

\* update: the loop is over
UpdateEnd ==
    /\ pc = "update"
    /\ ticks_just_now = ticks_per_frame
    /\ EnterPhase(AfterPhase("update"))
    /\ UNCHANGED <<panic, args, sim, gpu, loop, sampler, kernel_call,
                   ticks, ticks_per_frame, persist, sizing>>

\* render: record the write and the render pass and submit them
Render ==
    /\ pc = "render"
    /\ queue' = Append(queue, RenderCommands(num_points))
    /\ EnterPhase(AfterPhase("render"))
    /\ UNCHANGED <<panic, args, sim, gpu_pc, invoked, loop, sampler, kernel_call,
                   ticks, ticks_per_frame, persist, sizing>>

\* handle_window_event: the [ and ] keys
BracketKey ==
    /\ pc = "events"
    /\ \E r \in {CheckedSub1(ticks_per_frame), CheckedAdd1(ticks_per_frame)} :
          /\ IsSome(r) => Unwrap(r) \in TicksPerFrameWindow
          /\ ticks_per_frame' = IF IsSome(r) THEN Unwrap(r) ELSE ticks_per_frame
    /\ UNCHANGED <<pc, panic, args, sim, gpu, loop, sampler, kernel_call,
                   ticks, ticks_just_now, persist, sizing>>

\* handle_window_event: CloseRequested, Escape
CloseRequested ==
    /\ pc = "events"
    /\ pc' = "exit"
    /\ UNCHANGED <<panic, args, sim, gpu, loop, outside>>

\* the device executes a command of a render command buffer: the write
\* stores to its destination, the render pass reads its buffers
GpuRender ==
    /\ queue # <<>>
    /\ Command[1] \in {"write", "draw"}
    /\ buffers' = IF Command[1] = "write" /\ Command[2] \in BufferNames
                  THEN [buffers EXCEPT ![Command[2]] = <<>>]
                  ELSE buffers
    /\ NextCommand
    /\ UNCHANGED <<pc, panic, args, num_points, ruleset, walls, invoked, loop, outside>>

(***************************************************************************)
(* serialize.rs: Simulation <-> SimulationSerialized.  An array is saved   *)
(* as its elements in column-major order and its Dim4; Array::new builds   *)
(* it again from the two.                                                  *)
(***************************************************************************)
\* the fields of the Simulation that serialize.rs reads
SimulationOf ==
    [positions        |-> buffers.positions,
     velocities       |-> buffers.velocities,
     types            |-> buffers.types,
     num_points       |-> num_points,
     ruleset          |-> ruleset,
     walls            |-> walls,
     cache_max_r      |-> buffers.cache_max_r,
     cache_min_r      |-> buffers.cache_min_r,
     cache_attraction |-> buffers.cache_attraction]

\* impl Into<ComplexSerialized<T>> for Complex<T>, and back
ComplexIntoSerialized(c) == [real |-> c[1], imag |-> c[2]]
SerializedIntoComplex(c) == <<c.real, c.imag>>

\* elements() of a Dim4
Elements(dims) == dims[1] * dims[2] * dims[3] * dims[4]

\* dims() and host() of a vector, Array::new of its elements
VectorDims(v) == <<Len(v), 1, 1, 1>>
VectorNew(vals, dims) == [k \in 1..Elements(dims) |-> vals[k]]

\* dims() and host() of the n by n matrix m, Array::new of its elements
MatrixDims(n) == <<n, n, 1, 1>>
MatrixHost(m, n) == [k \in 1..(n * n) |-> m[(k - 1) % n][(k - 1) \div n]]
MatrixNew(vals, dims) ==
    [a \in 0..(dims[1] - 1) |-> [b \in 0..(dims[2] - 1) |-> vals[1 + a + b * dims[1]]]]

\* impl Into<RulesetSerialized> for Ruleset
RulesetIntoSerialized(rs) ==
    [num_point_types  |-> rs.num_point_types,
     min_r_vals       |-> MatrixHost(rs.min_r, rs.num_point_types),
     min_r_dims       |-> MatrixDims(rs.num_point_types),
     max_r_vals       |-> MatrixHost(rs.max_r, rs.num_point_types),
     max_r_dims       |-> MatrixDims(rs.num_point_types),
     attractions_vals |-> MatrixHost(rs.attractions, rs.num_point_types),
     attractions_dims |-> MatrixDims(rs.num_point_types),
     friction         |-> rs.friction]

\* impl Into<Ruleset> for RulesetSerialized
SerializedIntoRuleset(r) ==
    [num_point_types |-> r.num_point_types,
     min_r           |-> MatrixNew(r.min_r_vals, r.min_r_dims),
     max_r           |-> MatrixNew(r.max_r_vals, r.max_r_dims),
     attractions     |-> MatrixNew(r.attractions_vals, r.attractions_dims),
     friction        |-> r.friction]

\* impl Into<SimulationSerialized> for Simulation
SimulationIntoSerialized(s) ==
    [positions_vals        |-> [k \in 1..Len(s.positions) |->
                                  ComplexIntoSerialized(s.positions[k])],
     positions_dims        |-> VectorDims(s.positions),
     velocities_vals       |-> [k \in 1..Len(s.velocities) |->
                                  ComplexIntoSerialized(s.velocities[k])],
     velocities_dims       |-> VectorDims(s.velocities),
     types_vals            |-> s.types,
     types_dims            |-> VectorDims(s.types),
     num_points            |-> s.num_points,
     ruleset               |-> RulesetIntoSerialized(s.ruleset),
     walls                 |-> s.walls,
     cache_max_r_vals      |-> s.cache_max_r,
     cache_max_r_dims      |-> VectorDims(s.cache_max_r),
     cache_min_r_vals      |-> s.cache_min_r,
     cache_min_r_dims      |-> VectorDims(s.cache_min_r),
     cache_attraction_vals |-> s.cache_attraction,
     cache_attraction_dims |-> VectorDims(s.cache_attraction)]

\* impl Into<Simulation> for SimulationSerialized
SerializedIntoSimulation(s) ==
    [positions        |-> VectorNew([k \in 1..Len(s.positions_vals) |->
                                       SerializedIntoComplex(s.positions_vals[k])],
                                    s.positions_dims),
     velocities       |-> VectorNew([k \in 1..Len(s.velocities_vals) |->
                                       SerializedIntoComplex(s.velocities_vals[k])],
                                    s.velocities_dims),
     types            |-> VectorNew(s.types_vals, s.types_dims),
     num_points       |-> s.num_points,
     ruleset          |-> SerializedIntoRuleset(s.ruleset),
     walls            |-> s.walls,
     cache_max_r      |-> VectorNew(s.cache_max_r_vals, s.cache_max_r_dims),
     cache_min_r      |-> VectorNew(s.cache_min_r_vals, s.cache_min_r_dims),
     cache_attraction |-> VectorNew(s.cache_attraction_vals, s.cache_attraction_dims)]

\* the save at the end of run_headless: the finished Simulation is converted;
\* host() returns once the device has applied the pending work
Save ==
    /\ pc = "done"
    /\ queue = <<>>
    /\ pc' = "saved"
    /\ saved' = Some(SimulationIntoSerialized(SimulationOf))
    /\ UNCHANGED <<panic, args, sim, gpu, loop, sampler, kernel_call, vis, loaded, sizing>>

\* SimulationSource::Load, then run_headless on what was loaded: it counts
\* its steps from 0 again
Load ==
    /\ pc = "saved"
    /\ pc' = "resumed"
    /\ loaded' = Some([simulation |-> SerializedIntoSimulation(Unwrap(saved)),
                       steps |-> 0])
    /\ UNCHANGED <<panic, args, sim, gpu, loop, sampler, kernel_call, vis, saved, sizing>>

(***************************************************************************)
(* The sizes Simulation::new and Simulation::step compute for a            *)
(* population.  A size is held as a number of vec2<f32> elements, of       *)
(* SIZE_OF_F32 * 2 bytes each, so that the sizes of every population fit   *)
(* the 32-bit integers of TLC.                                             *)
(***************************************************************************)
RECURSIVE Pow2(_)
Pow2(e) == IF e = 0 THEN 1 ELSE 2 * Pow2(e - 1)

\* the number of elements at which a byte count held in a u32 wraps:
\* 2^32 / (SIZE_OF_F32 * 2)
U32_ELEMENTS == Pow2(16) * (Pow2(16) \div (SIZE_OF_F32 * 2))

\* the populations sized: u32 values next to the powers of two up to 2^29
Populations ==
    {p \in {Pow2(e) + d : e \in 0..29, d \in (-Spread)..Spread} : p >= 0}

\* overflow checks on (debug profile) or off (release profile)
Builds == {"debug", "release"}

\* (num_points * size_of::<f32>() as u32 * 2) as u64: the product is computed
\* in u32; it wraps where overflow checks are off
AllocatedElements(n) == n % U32_ELEMENTS

\* where overflow checks are on, the product panics when it does not fit
AllocationOverflows(n) == n >= U32_ELEMENTS

\* self.num_points as u64 * size_of::<f32>() as u64 * 2: computed in u64
CopiedElements(n) == n

\* Simulation::new sizes the four buffers alike and writes num_points
\* elements through the mapped range of positions and of velocities:
\* write_all(..).unwrap() panics when the range is shorter
NewSizes(n, build) ==
    IF build = "debug" /\ AllocationOverflows(n)
    THEN [faulted |-> TRUE, allocated |-> 0]
    ELSE [faulted |-> AllocatedElements(n) < n, allocated |-> AllocatedElements(n)]

\* the buffers of a population are sized by Simulation::new, its copies and
\* its dispatch by Simulation::step
SizesCall ==
    /\ pc = "sizes"
    /\ sized = None
    /\ \E build \in Builds :
          sized' = Some([new        |-> NewSizes(population, build),
                         copied     |-> CopiedElements(population),
                         workgroups |-> Workgroups(population)])
    /\ UNCHANGED <<pc, panic, args, sim, gpu, loop, sampler, kernel_call, vis,
                   persist, population>>

(***************************************************************************)
(* The specification.                                                      *)
(***************************************************************************)
\* --checkpoint and --steps values explored
Checkpoints == {None}
StepLimits == {None, Some(1)}

\* generate is not called
SamplerIdle == template = None /\ rng = None /\ generated = <<>>

\* force is not called on its own
KernelCallIdle == force_args = None /\ force_out = None

\* no Visualization exists
VisIdle == ticks = 0 /\ ticks_per_frame = 0 /\ ticks_just_now = 0

\* nothing is saved or loaded
PersistIdle == saved = None /\ loaded = None

\* no population is being sized
SizingIdle == population = 0 /\ sized = None

Init ==
    /\ pc = "main"
    /\ panic = ""
    /\ points \in 0..MaxPoints
    /\ wall_type \in WallsCLI
    /\ wall_dist \in {None} \cup {Some(d) : d \in WallDists}
    /\ headless \in BOOLEAN
    /\ checkpoint \in Checkpoints
    /\ max_steps \in StepLimits
    /\ num_points = 0
    /\ ruleset = RulesetOf(0, 0, 0)
    /\ walls = WallsNone
    /\ buffers = [b \in BufferNames |-> <<>>]
    /\ queue = <<>>
    /\ gpu_pc = 1
    /\ invoked = {}
    /\ steps = 0
    /\ steps_since_checkpoint = 0
    /\ reports = 0
    /\ broken = FALSE
    /\ SamplerIdle
    /\ KernelCallIdle
    /\ VisIdle
    /\ PersistIdle
    /\ SizingIdle

Next ==
    \/ MainArgs
    \/ SimulationNew
    \/ RunHeaded
    \/ RunHeadlessStart
    \/ CtrlC
    \/ LoopIteration
    \/ GpuCopy
    \/ \E i \in 1..MaxPoints : GpuInvoke(i)
    \/ GpuDispatchEnd

Spec == Init /\ [][Next]_vars

\* no Simulation is being built or run
HostIdle ==
    /\ panic = ""
    /\ points = 0
    /\ wall_type = "None"
    /\ wall_dist = None
    /\ headless = TRUE
    /\ checkpoint = None
    /\ max_steps = None
    /\ num_points = 0
    /\ ruleset = RulesetOf(0, 0, 0)
    /\ walls = WallsNone
    /\ buffers = [b \in BufferNames |-> <<>>]
    /\ queue = <<>>
    /\ gpu_pc = 1
    /\ invoked = {}
    /\ steps = 0
    /\ steps_since_checkpoint = 0
    /\ reports = 0
    /\ broken = FALSE

(***************************************************************************)
(* The specification of the sampler: a thread calls generate on one        *)
(* template up to MaxRuns times.                                           *)
(***************************************************************************)
InitSampler ==
    /\ pc = "generate"
    /\ HostIdle
    /\ template \in Presets \cup CallerTemplates
    /\ rng \in RngStates
    /\ generated = <<>>
    /\ KernelCallIdle
    /\ VisIdle
    /\ PersistIdle
    /\ SizingIdle

NextSampler == GenerateCall

SpecSampler == InitSampler /\ [][NextSampler]_vars

(***************************************************************************)
(* The specification of a headless run of two particles from a chosen      *)
(* Simulation: one type with min_r = 1, max_r = 10, attraction = 1 and     *)
(* friction = 0, or attraction zero and friction = 0 for every pair of     *)
(* types; placements that put the particles in and out of range of each    *)
(* other.                                                                  *)
(***************************************************************************)
ScenarioRulesets ==
    {UniformRuleset(1, FP, 10 * FP, FP, 0), RulesetOf(1, 0, 0), RulesetOf(2, 0, 0)}

ScenarioWalls == {WallsNone, WallsWrapping(6 * FP)}

\* positions Simulation::new may draw
ScenarioPoints == {<<0, 0>>, <<-5 * FP, 0>>, <<FP \div 2, 0>>, <<3 * FP, 4 * FP>>}

\* Simulation::new has returned a Simulation of two particles
\* the Simulation of a scenario and the host that is about to run it
ScenarioPlaced ==
    /\ panic = ""
    /\ points = 2
    /\ walls \in ScenarioWalls
    /\ wall_type = walls[1]
    /\ wall_dist = IF walls = WallsNone THEN None ELSE Some(walls[2])
    /\ headless = TRUE
    /\ num_points = points
    /\ ruleset \in ScenarioRulesets
    /\ buffers \in
         {BuffersOf(points, ruleset, walls, pts, types_vec, junk) :
            pts \in [1..points -> ScenarioPoints],
            types_vec \in [1..points -> TypeRange(ruleset.num_point_types)],
            junk \in UninitFills}
    /\ queue = <<>>
    /\ gpu_pc = 1
    /\ invoked = {}
    /\ steps = 0
    /\ steps_since_checkpoint = 0
    /\ reports = 0
    /\ broken = FALSE

ScenarioSimulation ==
    /\ checkpoint = None
    /\ max_steps = None
    /\ ScenarioPlaced

InitScenario ==
    /\ pc = "run"
    /\ ScenarioSimulation
    /\ SamplerIdle
    /\ KernelCallIdle
    /\ VisIdle
    /\ PersistIdle
    /\ SizingIdle

NextScenario ==
    \/ RunHeadlessStart
    \/ CtrlC
    \/ LoopIteration
    \/ GpuCopy
    \/ \E i \in 1..MaxPoints : GpuInvoke(i)
    \/ GpuDispatchEnd

SpecScenario == InitScenario /\ [][NextScenario]_vars

(***************************************************************************)
(* The specification of one call of force, its arguments drawn from        *)
(* displacements and type-pair parameters on both sides of every branch.   *)
(***************************************************************************)
ForceCoords == {-4 * FP, -1, 0, 1, FP, 3 * FP}

ForceArgs ==
    [delta : ForceCoords \X ForceCoords,
     min_r : {0, FP, 3 * FP},
     max_r : {FP, 3 * FP, 5 * FP},
     attraction : {-1 * FP, 0, FP}]

ForceCall ==
    /\ pc = "force"
    /\ force_out = None
    /\ force_out' = Some(force(force_args.delta, force_args.min_r,
                               force_args.max_r, force_args.attraction))
    /\ UNCHANGED <<pc, panic, args, sim, gpu, loop, sampler, force_args, vis, persist, sizing>>

InitForce ==
    /\ pc = "force"
    /\ HostIdle
    /\ SamplerIdle
    /\ force_args \in ForceArgs
    /\ force_out = None
    /\ VisIdle
    /\ PersistIdle
    /\ SizingIdle

NextForce == ForceCall

SpecForce == InitForce /\ [][NextForce]_vars

(***************************************************************************)
(* The specification of a headed run: Visualization::run on a Simulation   *)
(* of two particles, ticks_per_frame = 1 at first.                         *)
(***************************************************************************)
InitHeaded ==
    /\ pc = "events"
    /\ ScenarioSimulation
    /\ ruleset = UniformRuleset(1, FP, 10 * FP, FP, 0)
    /\ walls = WallsNone
    /\ positions[1] = Zero2
    /\ SamplerIdle
    /\ KernelCallIdle
    /\ ticks = 0
    /\ ticks_per_frame = 1
    /\ ticks_just_now = 0
    /\ PersistIdle
    /\ SizingIdle

NextHeaded ==
    \/ MainEventsCleared
    \/ UpdateIteration
    \/ UpdateEnd
    \/ Render
    \/ BracketKey
    \/ CloseRequested
    \/ GpuCopy
    \/ \E i \in 1..MaxPoints : GpuInvoke(i)
    \/ GpuDispatchEnd
    \/ GpuRender

SpecHeaded == InitHeaded /\ [][NextHeaded]_vars

(***************************************************************************)
(* The specification of a run that is saved and resumed: the headless loop *)
(* on a Simulation of two particles, the save when it ends, the load.      *)
(***************************************************************************)
InitSave == InitScenario

NextSave ==
    \/ RunHeadlessStart
    \/ CtrlC
    \/ LoopIteration
    \/ GpuCopy
    \/ \E i \in 1..MaxPoints : GpuInvoke(i)
    \/ GpuDispatchEnd
    \/ Save
    \/ Load

SpecSave == InitSave /\ [][NextSave]_vars

(***************************************************************************)
(* The specification of the two hosts that count ticks: the headless loop  *)
(* with its steps, the frames of the Visualization with its ticks, each on *)
(* a Simulation of two particles.                                          *)
(***************************************************************************)
InitHosts == InitScenario \/ InitHeaded

NextHosts ==
    \/ RunHeadlessStart
    \/ CtrlC
    \/ LoopIteration
    \/ MainEventsCleared
    \/ UpdateIteration
    \/ UpdateEnd
    \/ Render
    \/ BracketKey
    \/ CloseRequested
    \/ GpuCopy
    \/ \E i \in 1..MaxPoints : GpuInvoke(i)
    \/ GpuDispatchEnd
    \/ GpuRender

SpecHosts == InitHosts /\ [][NextHosts]_vars

(***************************************************************************)
(* The specification of the sizes computed for a population.               *)
(***************************************************************************)
InitSizes ==
    /\ pc = "sizes"
    /\ HostIdle
    /\ SamplerIdle
    /\ KernelCallIdle
    /\ VisIdle
    /\ PersistIdle
    /\ population \in Populations
    /\ sized = None

NextSizes == SizesCall

SpecSizes == InitSizes /\ [][NextSizes]_vars

(***************************************************************************)
(* The specification of run_headless under the --checkpoint and --steps    *)
(* options, on a Simulation of two particles.                              *)
(***************************************************************************)
LoopCheckpoints == {None} \cup {Some(c) : c \in 0..MaxSteps}
LoopStepLimits == {None} \cup {Some(n) : n \in 0..MaxSteps}

InitLoop ==
    /\ pc = "run"
    /\ checkpoint \in LoopCheckpoints
    /\ max_steps \in LoopStepLimits
    /\ ScenarioPlaced
    /\ ruleset = UniformRuleset(1, FP, 10 * FP, FP, 0)
    /\ walls = WallsNone
    /\ positions[1] = Zero2
    /\ positions_old[1] = Zero2
    /\ SamplerIdle
    /\ KernelCallIdle
    /\ VisIdle
    /\ PersistIdle
    /\ SizingIdle

NextLoop ==
    \/ RunHeadlessStart
    \/ CtrlC
    \/ LoopIteration
    \/ GpuCopy
    \/ \E i \in 1..MaxPoints : GpuInvoke(i)
    \/ GpuDispatchEnd

SpecLoop == InitLoop /\ [][NextLoop]_vars

(***************************************************************************)
(* The specification of a headed run whose ticks_per_frame the [ and ]     *)
(* keys have brought next to either end of u16 before the first frame.     *)
(***************************************************************************)
InitKeys ==
    /\ pc = "events"
    /\ ScenarioSimulation
    /\ ruleset = UniformRuleset(1, FP, 10 * FP, FP, 0)
    /\ walls = WallsNone
    /\ positions[1] = Zero2
    /\ SamplerIdle
    /\ KernelCallIdle
    /\ ticks = 0
    /\ ticks_per_frame \in TicksPerFrameWindow
    /\ ticks_just_now = 0
    /\ PersistIdle
    /\ SizingIdle

NextKeys == NextHeaded

SpecKeys == InitKeys /\ [][NextKeys]_vars

(***************************************************************************)
(* Properties.                                                             *)
(***************************************************************************)
\* the device is executing a dispatch
InDispatch == queue # <<>> /\ Command[1] = "dispatch"

\* every invocation of the running dispatch has run
DispatchComplete == InDispatch /\ invoked = Invocations(Command[2])

\* a step of the device that runs one invocation
InvokeStep == invoked' # invoked /\ invoked \subseteq invoked'

\* ticks the device has completed
TicksCompleted == steps - Len(queue)

\* the device stands between two ticks
BetweenTicks == gpu_pc = 1 /\ invoked = {}

\* the <<position, velocity>> an invocation computes for particle i from the
\* previous-generation buffers
FromSnapshot(i) ==
    Kernel(i, positions_old, velocities_old, types,
           cache_min_r, cache_max_r, cache_attraction, globals)

\* every coordinate of v lies in [-e, e)
Inside(v, e) == \A ax \in 1..2 : -e <= v[ax] /\ v[ax] < e

\* C1: an invocation leaves the previous-generation buffers alone and stores
\* only to its own slot of positions and velocities, and at every moment of
\* a dispatch each particle that has run holds the value computed from the
\* previous-generation snapshot and each that has not holds the snapshot's:
\* the tick's result does not depend on the order of the invocations.
C1_SnapshotIsolation ==
    /\ [](InDispatch =>
            \A i \in 1..num_points :
               <<positions[i], velocities[i]>> =
                  IF i \in invoked THEN FromSnapshot(i)
                  ELSE <<positions_old[i], velocities_old[i]>>)
    /\ [][InvokeStep =>
            /\ \A b \in BufferNames \ {"positions", "velocities"} : buffers'[b] = buffers[b]
            /\ \A j \in 1..num_points :
                  j \in invoked \/ j \notin invoked' =>
                     positions'[j] = positions[j] /\ velocities'[j] = velocities[j]]_vars

\* C1 witness: a dispatch over two particles has run both invocations and
\* the force between them changed both velocities
C1_Witness ==
    /\ DispatchComplete
    /\ invoked = {1, 2}
    /\ velocities[1] # velocities_old[1]
    /\ velocities[2] # velocities_old[2]

\* C2: when a dispatch starts the previous-generation buffers equal the
\* current ones, which only invocations write; and the previous-generation
\* buffers change only when the device executes a copy command.
C2_CopiesBeforeDispatch ==
    /\ [](InDispatch /\ invoked = {} =>
            positions_old = positions /\ velocities_old = velocities)
    /\ [][Constructed =>
            /\ (positions_old' # positions_old \/ velocities_old' # velocities_old
                  => queue # <<>> /\ Command[1] = "copy")
            /\ (positions' # positions \/ velocities' # velocities => InvokeStep)]_vars

\* C2 witness: the dispatch of the second tick starts on a state the first
\* tick changed
C2_Witness ==
    /\ InDispatch
    /\ invoked = {}
    /\ TicksCompleted = 1
    /\ num_points = 2
    /\ velocities[1] # Zero2

\* C3: whenever step has returned, the tick it issued has been applied:
\* nothing submitted is pending.
C3_AppliedOnReturn == pc \in {"loop", "done"} => queue = <<>>

\* C4: entry a * n + b of each cache is the ruleset's entry [a][b].
C4_CacheIsRuleset ==
    Constructed =>
       \A a, b \in 0..(ruleset.num_point_types - 1) :
          LET k == a * ruleset.num_point_types + b + 1
          IN  /\ cache_min_r[k] = ruleset.min_r[a][b]
              /\ cache_max_r[k] = ruleset.max_r[a][b]
              /\ cache_attraction[k] = ruleset.attractions[a][b]

\* C5: once the Simulation exists no step changes the ruleset, the caches,
\* the types, the globals, the walls or num_points.
C5_StepFrame ==
    [][Constructed =>
         /\ UNCHANGED <<ruleset, walls, num_points>>
         /\ \A b \in BufferNames \ {"positions", "positions_old", "velocities", "velocities_old"} :
               buffers'[b] = buffers[b]]_vars

\* C5 witness: two ticks have been applied to two interacting particles
C5_Witness ==
    /\ TicksCompleted = 2
    /\ num_points = 2
    /\ velocities[1] # Zero2

\* C6: after Simulation::new with Square(extent) or Wrapping(extent), every
\* coordinate of every initial position lies in [-extent, extent).
C6_InitialPositionsInside ==
    pc = "run" /\ walls[1] \in {"Square", "Wrapping"} /\ walls[2] > 0 =>
       \A i \in 1..num_points : Inside(positions[i], walls[2])

\* C7: the Simulation stores num_points types, each below num_point_types.
C7_TypesInRange ==
    Constructed =>
       /\ DOMAIN types = 1..num_points
       /\ \A i \in 1..num_points : 0 <= types[i] /\ types[i] < ruleset.num_point_types

\* C7 witness: two particles of different types, two ticks issued
C7_Witness ==
    /\ Constructed
    /\ num_points = 2
    /\ types[1] # types[2]
    /\ steps = 2

\* C8: under Wrapping(extent), after every tick every coordinate of every
\* position lies in [-extent, extent).
C8_PeriodicInside ==
    walls[1] = "Wrapping" /\ walls[2] > 0 /\ BetweenTicks /\ TicksCompleted >= 1 =>
       \A i \in 1..num_points : Inside(positions[i], walls[2])

\* C9: under Square(extent), a particle whose integration carries a
\* coordinate from inside the domain to outside it ends the tick with that
\* coordinate on the boundary and the velocity component negated.
C9_ReflectiveClamps ==
    walls[1] = "Square" /\ walls[2] > 0 /\ DispatchComplete =>
       \A i \in 1..num_points : \A ax \in 1..2 :
          LET s == Integrated(i, positions_old, velocities_old, types,
                              cache_min_r, cache_max_r, cache_attraction, globals)
          IN  Abs(positions_old[i][ax]) <= walls[2] =>
              /\ s[1][ax] > walls[2] =>
                    positions[i][ax] = walls[2] /\ velocities[i][ax] = -s[2][ax]
              /\ s[1][ax] < -walls[2] =>
                    positions[i][ax] = -walls[2] /\ velocities[i][ax] = -s[2][ax]

\* C10: Square or Wrapping without a wall distance panics in unwrap, before
\* Simulation::new; None gives Walls::None whatever the distance, Square and
\* Wrapping with a distance f give the variant carrying f.
C10_WallsFromArgs ==
    /\ wall_type # "None" /\ wall_dist = None /\ pc # "main" =>
          pc = "panicked" /\ panic = "unwrap" /\ buffers = [b \in BufferNames |-> <<>>]
    /\ pc # "main" /\ panic # "unwrap" =>
          /\ wall_type = "None" => walls = WallsNone
          /\ wall_type = "Square" => walls = WallsSquare(Unwrap(wall_dist))
          /\ wall_type = "Wrapping" => walls = WallsWrapping(Unwrap(wall_dist))

\* C10 witness: main aborted on Square without a distance
C10_Witness == pc = "panicked" /\ panic = "unwrap" /\ wall_type = "Square"

\* C11: no Simulation exists whose walls are Square or Wrapping with an
\* extent that is not strictly positive.
C11_ExtentPositive ==
    Constructed /\ walls[1] \in {"Square", "Wrapping"} => walls[2] > 0

\* min <= max in each range of the template
ProperTemplate(t) ==
    /\ t.min_types <= t.max_types
    /\ t.min_r_lower <= t.min_r_upper
    /\ t.max_r_lower <= t.max_r_upper
    /\ t.min_friction <= t.max_friction

\* m is n rows of n entries
SquareMatrix(m, n) ==
    /\ DOMAIN m = 0..(n - 1)
    /\ \A a \in 0..(n - 1) : DOMAIN m[a] = 0..(n - 1)

\* C12: every Ruleset generated from a named preset has
\* min_r[i][j] <= max_r[i][j] for all i, j < num_point_types.
C12_PresetsOrdered ==
    template \in Presets =>
       \A k \in 1..Len(generated) :
          \A i, j \in 0..(generated[k].num_point_types - 1) :
             generated[k].min_r[i][j] <= generated[k].max_r[i][j]

C14_SameSourceSameRuleset ==
    Len(generated) >= 2 => generated[1] = generated[2]

\* |v|^2
Norm2(v) == v[1] * v[1] + v[2] * v[2]

\* the largest entry of the ruleset's min_r
LargestMinR ==
    LET entries == {ruleset.min_r[a][b] : a, b \in 0..(ruleset.num_point_types - 1)}
    IN  CHOOSE m \in entries : \A e \in entries : e <= m

\* attraction is zero for every pair of types and friction is zero
ZeroAttraction ==
    /\ ruleset.friction = 0
    /\ \A a, b \in 0..(ruleset.num_point_types - 1) : ruleset.attractions[a][b] = 0

\* the squared distance of particles p and q in the tick's snapshot
SnapshotDist2(p, q) == Norm2(VSub(positions_old[q], positions_old[p]))

\* C15: with attraction zero for every pair of types and friction zero,
\* every particle's velocity after a tick equals its velocity before it.
C15_VelocitiesConserved ==
    ZeroAttraction /\ InDispatch =>
       \A i \in invoked : velocities[i] = velocities_old[i]

\* C15, amended: with attraction zero for every pair of types and friction
\* zero, the velocity after a tick equals the velocity before it of every
\* particle that has no other particle within the largest min_r of the
\* ruleset.
C15_ConservedBeyondMinR ==
    ZeroAttraction /\ InDispatch =>
       \A i \in invoked :
          (\A q \in (1..num_points) \ {i} :
              SnapshotDist2(i, q) > LargestMinR * LargestMinR)
             => velocities[i] = velocities_old[i]

\* C15 witness: the second tick has run for two particles of different
\* types that lie beyond min_r and within max_r of each other
C15_Witness ==
    /\ ZeroAttraction
    /\ DispatchComplete
    /\ TicksCompleted = 1
    /\ invoked = {1, 2}
    /\ types[1] # types[2]
    /\ SnapshotDist2(1, 2) > LargestMinR * LargestMinR
    /\ SnapshotDist2(1, 2) <= cache_max_r[1] * cache_max_r[1]
    /\ velocities = velocities_old

\* the first tick of two particles of one type with min_r = 1, max_r = 10,
\* attraction = 1 and friction = 0 under Wrapping(6), at (0,0) and (-5,0),
\* has run
WrapScenario ==
    /\ ruleset = UniformRuleset(1, FP, 10 * FP, FP, 0)
    /\ walls = WallsWrapping(6 * FP)
    /\ DispatchComplete
    /\ TicksCompleted = 0
    /\ positions_old = << <<0, 0>>, <<-5 * FP, 0>> >>

\* the displacement from particle p to particle q the kernel hands to force
KernelDelta(p, q) == wrap(VSub(positions_old[q], positions_old[p]), KernelWalls(globals))

\* C16: in that scenario the displacement the force law is given has length
\* 1, and the force of the first tick has the magnitude the force law gives
\* at distance 1.
C16_WrappedDistanceOne ==
    WrapScenario =>
       /\ Norm2(KernelDelta(1, 2)) = FP * FP
       /\ Norm2(velocities[1]) = Norm2(force(<<-1 * FP, 0>>, FP, 10 * FP, FP))

\* C16, amended: in that scenario the raw difference of 5 does not exceed
\* half the domain width of 6, the wrap of Wrapping(6) applies no correction
\* to it, and the displacement the force law is given is the raw difference:
\* the force of the first tick is the one the force law gives at distance 5,
\* opposite on the two particles.
C16_RawDistanceFive ==
    WrapScenario =>
       /\ wrap(<<-5 * FP, 0>>, walls) = <<-5 * FP, 0>>
       /\ KernelDelta(1, 2) = <<-5 * FP, 0>>
       /\ velocities[1] = force(<<-5 * FP, 0>>, FP, 10 * FP, FP)
       /\ velocities[2] = force(<<5 * FP, 0>>, FP, 10 * FP, FP)
       /\ velocities[1] # Zero2

\* C16 witness: the scenario's first tick has run and moved particle 1
C16_Witness == WrapScenario /\ velocities[1][1] < 0 /\ positions[1] = velocities[1]

\* |delta|^2 of the call of force
ForceR2 == Norm2(force_args.delta)

\* C17: force returns the zero vector whenever |delta|^2 > max_r^2 or
\* |delta|^2 < 0.01.
C17_ZeroOutsideRange ==
    force_out # None =>
       (ForceR2 > force_args.max_r * force_args.max_r \/ 100 * ForceR2 < FP * FP
          => Unwrap(force_out) = Zero2)

\* C17 witness: force was called on two distinct particles closer than 0.1,
\* within max_r and below min_r, where the short-range branch is not zero
C17_Witness ==
    /\ force_out # None
    /\ ForceR2 > 0
    /\ 100 * ForceR2 < FP * FP
    /\ force_args.min_r > 0
    /\ ShortMagnitude(Sqrt(ForceR2), force_args.min_r) # 0

\* C18: for min_r < max_r and every attraction the tent branch and the
\* short-range branch give the same magnitude at r = min_r, so a call at
\* that distance returns what the tent branch gives there.
C18_ContinuousAtMinR ==
    force_args # None /\ force_args.min_r < force_args.max_r =>
       LET m == force_args.min_r
           tent == TentMagnitude(m, m, force_args.max_r, force_args.attraction)
       IN  /\ tent = ShortMagnitude(m, m)
           /\ force_out # None /\ Sqrt(ForceR2) = m /\ 100 * ForceR2 >= FP * FP =>
                 Unwrap(force_out) = <<Div(force_args.delta[1] * tent, m),
                                       Div(force_args.delta[2] * tent, m)>>

\* C18 witness: force was called at distance min_r = 1 below max_r with a
\* non-zero attraction
C18_Witness ==
    /\ force_out # None
    /\ force_args.min_r = FP
    /\ ForceR2 = FP * FP
    /\ force_args.max_r > FP
    /\ force_args.attraction # 0

\* the device is executing the render pass of a frame
InRenderPass == queue # <<>> /\ Command[1] = "draw"

\* a step in which the device executes a command of a render command buffer
RenderStep == queue # <<>> /\ Command[1] \in {"write", "draw"} /\ gpu' # gpu

\* C19: the host issues the render pass of a frame only after the
\* ticks_per_frame ticks of that frame; every pending command buffer is a
\* whole tick or a whole render, so the render pass, which reads positions,
\* runs with no tick partly applied, never between the copies and the
\* dispatch of a tick; and the commands of a render neither name a buffer of
\* the Simulation as destination nor change one.
C19_RenderBetweenTicks ==
    /\ [](/\ pc = "render" => ticks_just_now = ticks_per_frame
          /\ \A k \in 1..Len(queue) :
                queue[k] \in {StepCommands(num_points), RenderCommands(num_points)}
          /\ \A k \in 1..Len(RenderCommands(num_points)) :
                LET c == RenderCommands(num_points)[k]
                IN  /\ c[1] \notin {"copy", "dispatch"}
                    /\ c[1] = "write" => c[2] \notin BufferNames
          /\ InRenderPass =>
                /\ "positions" \in Command[2]
                /\ invoked = {}
                /\ Head(queue) = RenderCommands(num_points))
    /\ [][RenderStep => buffers' = buffers]_vars

\* C19 witness: the device executes the render pass of a frame whose two
\* ticks have moved the particles
C19_Witness ==
    /\ InRenderPass
    /\ ticks_per_frame = 2
    /\ ticks = 2
    /\ Len(queue) = 1
    /\ velocities[1] # Zero2

\* C20: a resumed run has the positions, velocities, types, RuleSet and
\* BoundaryPolicy of the run that was saved, and its tick count.
C20_ResumesIdentically ==
    pc = "resumed" =>
       LET r == Unwrap(loaded)
       IN  /\ r.simulation.positions = SimulationOf.positions
           /\ r.simulation.velocities = SimulationOf.velocities
           /\ r.simulation.types = SimulationOf.types
           /\ r.simulation.ruleset = SimulationOf.ruleset
           /\ r.simulation.walls = SimulationOf.walls
           /\ r.steps = steps

\* the part of C20 that the conversions do keep: every field of the
\* Simulation that SimulationSerialized carries comes back equal
C20_FieldsRoundTrip ==
    pc = "resumed" => Unwrap(loaded).simulation = SimulationOf

\* the tick counter of the host that runs the Simulation: steps of
\* run_headless, ticks of the Visualization (the other one stays 0)
TickCounter == steps + ticks

\* the number of times this step calls Simulation::step: the command
\* buffers of a tick appended to the queue
StepCalls ==
    IF Len(queue') > Len(queue) /\ queue'[Len(queue')] = StepCommands(num_points)
    THEN Len(queue') - Len(queue)
    ELSE 0

\* C21: the tick counter starts at 0 and every step of the program adds to
\* it the number of calls of Simulation::step it makes, 1 or 0: it never
\* decreases and equals the number of ticks issued so far.
C21_TickCounterCountsSteps ==
    /\ TickCounter = 0
    /\ [][/\ TickCounter' = TickCounter + StepCalls
          /\ StepCalls <= 1]_vars

\* C21 witness: two ticks were counted, by either host
C21_Witness == TickCounter = 2 /\ queue # <<>> /\ pc \in {"loop", "update"}

\* C22: run_headless calls Simulation::step only in its loop, once per
\* iteration; it leaves the loop only in an iteration that has made its
\* call; and an iteration that starts with the Ctrl-C flag set is the last:
\* from the setting of the flag at most one further step is started, and
\* none after the loop is left.
C22_StopsAtTickBoundary ==
    [][/\ StepCalls >= 1 => pc = "loop" /\ StepCalls = 1
       /\ pc = "loop" /\ pc' # "loop" => StepCalls = 1
       /\ broken /\ StepCalls = 1 => pc' # "loop"
       /\ pc # "loop" => pc' # "loop" \/ pc = "run"]_vars

\* C22 witness: the flag was set between the first and the second iteration;
\* the second step was started and the loop was left after it
C22_Witness == pc = "done" /\ broken /\ steps = 2 /\ Len(queue) = 2

\* C23: the workgroups dispatched for a population give every particle an
\* invocation, with fewer than WORKGROUP_SIZE invocations in surplus.
C23_EveryParticleInvoked ==
    sized # None =>
       LET invocations == Unwrap(sized).workgroups * WORKGROUP_SIZE
       IN  /\ invocations >= population
           /\ invocations - population < WORKGROUP_SIZE

\* C25: each of the four buffers is allocated with as many elements as the
\* population has, the number step copies, and Simulation::new does not
\* fault on the way.
C25_AllocatedAsCopied ==
    sized # None =>
       /\ ~Unwrap(sized).new.faulted
       /\ Unwrap(sized).new.allocated = population
       /\ Unwrap(sized).new.allocated = Unwrap(sized).copied

\* C24: Simulation::new does not fault when its ruleset has at least one
\* type, whatever the population.
C24_NewCompletes ==
    pc = "panicked" /\ ruleset.num_point_types >= 1 => panic # "new"

\* C26: with max_steps = Some(n), run_headless never issues more than n
\* steps, and when it leaves the loop without an interrupt it has issued n.
C26_ExactlyMaxSteps ==
    IsSome(max_steps) =>
       /\ steps <= Unwrap(max_steps)
       /\ pc = "done" /\ ~broken => steps = Unwrap(max_steps)

\* C27: with checkpoint = Some(c), c >= 1, steps_since_checkpoint is
\* steps mod c and steps div c reports were printed; a report is printed
\* in the iterations that bring steps to a positive multiple of c, when
\* steps_since_checkpoint has reached c, and resets it to 0.
C27_CheckpointEveryC ==
    /\ [](IsSome(checkpoint) /\ Unwrap(checkpoint) >= 1 =>
             /\ steps_since_checkpoint = steps % Unwrap(checkpoint)
             /\ reports = steps \div Unwrap(checkpoint))
    /\ [][IsSome(checkpoint) /\ Unwrap(checkpoint) >= 1 /\ reports' # reports =>
             /\ reports' = reports + 1
             /\ steps' = steps + 1
             /\ steps' % Unwrap(checkpoint) = 0
             /\ steps_since_checkpoint + 1 = Unwrap(checkpoint)
             /\ steps_since_checkpoint' = 0]_vars

\* C27 witness: with --checkpoint 2 the second step printed the first report
C27_Witness ==
    /\ checkpoint = Some(2)
    /\ steps = 2
    /\ reports = 1
    /\ steps_since_checkpoint = 0

\* C28: run_headless does not fault on the checkpoint interval it is given.
C28_NoFaultOnCheckpoint == ~(pc = "panicked" /\ panic = "checkpoint")

\* C29: ticks_per_frame stays a u16 and the keys change it by one at a
\* time, never across the ends (no step takes it from 0 to 65535 or back);
\* update counts in ticks_just_now the steps it issues, from 0, and ends
\* when it has issued ticks_per_frame of them, so with ticks_per_frame = 0
\* a frame issues no step and is rendered all the same.
C29_TicksPerFrameSaturates ==
    /\ [](ticks_per_frame \in 0..U16_MAX)
    /\ [][/\ ticks_per_frame' # ticks_per_frame =>
               /\ pc = "events"
               /\ ticks_per_frame' \in {ticks_per_frame - 1, ticks_per_frame + 1}
          /\ ticks_just_now' =
               IF pc # "update" /\ pc' = "update" THEN 0 ELSE ticks_just_now + StepCalls
          /\ pc = "update" /\ pc' # "update" =>
               /\ ticks_just_now = ticks_per_frame
               /\ pc' = "render"
          /\ pc = "update" /\ ticks_per_frame = 0 => StepCalls = 0]_vars

\* C29 witness: after a frame of one tick the [ key has paused the
\* simulation; the next frame issued no step and its render pass runs
C29_Witness ==
    /\ ticks_per_frame = 0
    /\ ticks = 1
    /\ ticks_just_now = 0
    /\ pc = "events"
    /\ InRenderPass
    /\ Len(queue) = 1

====
